---- MODULE Spec2Model ----
(***************************************************************************)
(* Model of functions/addresses.py: public-key compression, Base58Check    *)
(* encoding/decoding and the five address builders (P2PKH, P2SH, P2WPKH,   *)
(* P2WSH, P2SH-P2WPKH).                                                    *)
(*                                                                         *)
(* bytes objects are sequences over 0..255.  A Python str is a sequence of *)
(* string pieces: an address is a sequence of one-character pieces, the    *)
(* "Enter the network" message is a single piece.  Python's unbounded      *)
(* integers are kept as big-endian base-256 digit sequences wherever they  *)
(* do not fit 32 bits (base-58 arithmetic).                           *)
(***************************************************************************)
EXTENDS Integers, Sequences, FiniteSets, TLC

\* ------------------------------------------------------------------------
\* Bounds of the input space
\* ------------------------------------------------------------------------
\* longest script / raw payload handed to the script builders and the codec
MaxScriptLen == 2
\* filler byte values used for the middle bytes of coordinates are 0..MaxFill
MaxFill == 1

\* ------------------------------------------------------------------------
\* Generic helpers
\* ------------------------------------------------------------------------
RECURSIVE SeqsUpTo(_, _)
SeqsUpTo(S, n) ==
    IF n = 0 THEN {<<>>}
    ELSE LET shorter == SeqsUpTo(S, n - 1)
         IN  shorter \cup {Append(s, b) : s \in {t \in shorter : Len(t) = n - 1}, b \in S}

Repeat(x, n) == [i \in 1..n |-> x]

\* a loop "for i in lo..hi: acc = Op(acc, i)", evaluated by halving the range
RECURSIVE FoldRange(_, _, _, _)
FoldRange(Op(_, _), acc, lo, hi) ==
    IF lo > hi THEN acc
    ELSE IF lo = hi THEN Op(acc, lo)
    ELSE LET mid  == (lo + hi) \div 2
             left == FoldRange(Op, acc, lo, mid)
         IN  IF left = left THEN FoldRange(Op, left, mid + 1, hi) ELSE left

RECURSIVE Pow2(_)
Pow2(n) == IF n = 0 THEN 1 ELSE 2 * Pow2(n - 1)

\* a >> n, a & (2^n - 1) on non-negative integers
Shr(a, n) == a \div Pow2(n)
LowBits(a, n) == a % Pow2(n)

RECURSIVE Xor(_, _)
Xor(a, b) ==
    IF a = 0 THEN b
    ELSE IF b = 0 THEN a
    ELSE ((a + b) % 2) + 2 * Xor(a \div 2, b \div 2)

\* ------------------------------------------------------------------------
\* Hex text <-> bytes (bytes.hex, bytes.fromhex)
\* ------------------------------------------------------------------------
HexDigits == <<"0","1","2","3","4","5","6","7","8","9","a","b","c","d","e","f">>

HexValue(c) == (CHOOSE i \in 1..16 : HexDigits[i] = c) - 1

\* bytes.hex(): two lower-case hex characters per byte
hex(b) ==
    [i \in 1..(2 * Len(b)) |->
        IF i % 2 = 1 THEN HexDigits[(b[(i + 1) \div 2] \div 16) + 1]
                     ELSE HexDigits[(b[i \div 2] % 16) + 1]]

\* bytes.fromhex(): one byte per pair of hex characters
fromhex(s) ==
    [i \in 1..(Len(s) \div 2) |-> 16 * HexValue(s[2 * i - 1]) + HexValue(s[2 * i])]

\* ------------------------------------------------------------------------
\* Digest pipeline (functions/hashfunctions.py, hashlib).
\* The digests are deterministic functions of the whole input with a fixed
\* output length; the compression functions themselves are abstracted by a
\* mixing function.
\* ------------------------------------------------------------------------
Absorb(b) ==
    LET Step(h, i) == (h * 31 + b[i] + 1) % 65521
    IN  FoldRange(Step, 1, 1, Len(b))

Digest(b, n, salt) ==
    LET h == Absorb(b)
    IN  [i \in 1..n |-> (h * (i + salt) + (h \div 256) + 13 * i) % 256]

\* 32-byte and 20-byte digests
sha256(b) == Digest(b, 32, 1)
ripemd160(b) == Digest(b, 20, 2)

hash256(b) == sha256(sha256(b))
hash160(b) == ripemd160(sha256(b))

\* ------------------------------------------------------------------------
\* Big integers as big-endian base-256 digit sequences
\* ------------------------------------------------------------------------
IsZero(ds) == \A i \in 1..Len(ds) : ds[i] = 0

\* number of leading elements of s equal to x
LeadingCount(s, x) ==
    Cardinality({i \in 1..Len(s) : \A j \in 1..i : s[j] = x})

StripZeros(ds) == SubSeq(ds, LeadingCount(ds, 0) + 1, Len(ds))

\* divmod(ds, d): long division, most significant digit first
DivMod(ds, d) ==
    LET Step(st, i) ==
            LET cur == st.r * 256 + ds[i]
            IN  [q |-> Append(st.q, cur \div d), r |-> cur % d]
    IN  FoldRange(Step, [q |-> <<>>, r |-> 0], 1, Len(ds))

\* ds * m + a, least significant digit first
MulAdd(ds, m, a) ==
    LET Step(st, k) ==
            LET cur == ds[Len(ds) + 1 - k] * m + st.carry
            IN  [carry |-> cur \div 256, out |-> <<cur % 256>> \o st.out]
        fin == FoldRange(Step, [carry |-> a, out |-> <<>>], 1, Len(ds))
    IN  IF fin.carry = 0 THEN fin.out ELSE <<fin.carry>> \o fin.out

\* ------------------------------------------------------------------------
\* base58 library
\* ------------------------------------------------------------------------
BITCOIN_ALPHABET ==
    <<"1","2","3","4","5","6","7","8","9",
      "A","B","C","D","E","F","G","H","J","K","L","M","N","P","Q","R","S","T","U","V","W","X","Y","Z",
      "a","b","c","d","e","f","g","h","i","j","k","m","n","o","p","q","r","s","t","u","v","w","x","y","z">>

Radix58 == Len(BITCOIN_ALPHABET)

AlphabetChars == {BITCOIN_ALPHABET[i] : i \in 1..Radix58}

AlphabetIndex(c) == (CHOOSE i \in 1..Radix58 : BITCOIN_ALPHABET[i] = c) - 1

\* b58encode_int(acc, default_one=False): "while acc: acc, idx = divmod(acc, 58)";
\* a value of n bytes has fewer than 2n base-58 digits
b58encode_int(acc) ==
    LET Step(st, k) ==
            IF IsZero(st.acc) THEN st
            ELSE LET dm == DivMod(st.acc, Radix58)
                 IN  [acc |-> StripZeros(dm.q),
                      string |-> <<BITCOIN_ALPHABET[dm.r + 1]>> \o st.string]
    IN  FoldRange(Step, [acc |-> acc, string |-> <<>>], 1, 2 * Len(acc)).string

\* b58encode(v): one "1" per leading zero byte, then the digits of the integer
b58encode(v) ==
    Repeat(BITCOIN_ALPHABET[1], LeadingCount(v, 0)) \o b58encode_int(StripZeros(v))

\* b58decode_int(v): "for char in v: decimal = decimal * 58 + index(char)"
b58decode_int(v) ==
    LET Step(decimal, i) == MulAdd(decimal, Radix58, AlphabetIndex(v[i]))
    IN  FoldRange(Step, <<>>, 1, Len(v))

\* b58decode(v): one zero byte per leading "1", then the bytes of the integer;
\* a character outside the alphabet raises ValueError
b58decode(v) ==
    IF \E i \in 1..Len(v) : v[i] \notin AlphabetChars
    THEN [raised |-> "ValueError", value |-> <<>>]
    ELSE LET npad == LeadingCount(v, BITCOIN_ALPHABET[1])
             rest == SubSeq(v, npad + 1, Len(v))
         IN  [raised |-> "none",
              value  |-> Repeat(0, npad) \o StripZeros(b58decode_int(rest))]

\* ------------------------------------------------------------------------
\* bech32 library (segwit address encoder)
\* ------------------------------------------------------------------------
CHARSET ==
    <<"q","p","z","r","y","9","x","8","g","f","2","t","v","d","w","0",
      "s","3","j","n","5","4","k","h","c","e","6","m","u","a","7","l">>

generator == <<996825010, 642813549, 513874426, 1027748829, 705979059>>

\* ord() of the characters that occur in a human-readable part
ord(c) ==
    CASE c = "b" -> 98
      [] c = "c" -> 99
      [] c = "r" -> 114
      [] c = "t" -> 116

bech32_polymod(values) ==
    LET GenStep(chk, top, i) ==
            IF Shr(top, i) % 2 = 1 THEN Xor(chk, generator[i + 1]) ELSE chk
        Step(chk, k) ==
            LET top == Shr(chk, 25)
                c0  == Xor(LowBits(chk, 25) * 32, values[k])
            IN  GenStep(GenStep(GenStep(GenStep(GenStep(c0, top, 0), top, 1), top, 2), top, 3), top, 4)
    IN  FoldRange(Step, 1, 1, Len(values))

bech32_hrp_expand(hrp) ==
    [i \in 1..Len(hrp) |-> Shr(ord(hrp[i]), 5)] \o <<0>>
        \o [i \in 1..Len(hrp) |-> LowBits(ord(hrp[i]), 5)]

bech32_create_checksum(hrp, data) ==
    LET values  == bech32_hrp_expand(hrp) \o data
        polymod == Xor(bech32_polymod(values \o <<0, 0, 0, 0, 0, 0>>), 1)
    IN  [i \in 1..6 |-> LowBits(Shr(polymod, 5 * (6 - i)), 5)]

bech32_encode(hrp, data) ==
    LET combined == data \o bech32_create_checksum(hrp, data)
    IN  hrp \o <<"1">> \o [i \in 1..Len(combined) |-> CHARSET[combined[i] + 1]]

\* convertbits(data, 8, 5): regroup bytes into 5-bit values, zero-padded
RECURSIVE ConvertFlush(_, _, _)
ConvertFlush(acc, bits, ret) ==
    IF bits < 5 THEN [acc |-> acc, bits |-> bits, ret |-> ret]
    ELSE ConvertFlush(acc, bits - 5, Append(ret, LowBits(Shr(acc, bits - 5), 5)))

convertbits(data) ==
    LET Step(st, i) == ConvertFlush(LowBits(st.acc * 256 + data[i], 12), st.bits + 8, st.ret)
        fin == FoldRange(Step, [acc |-> 0, bits |-> 0, ret |-> <<>>], 1, Len(data))
    IN  IF fin.bits > 0
        THEN Append(fin.ret, LowBits(fin.acc * Pow2(5 - fin.bits), 5))
        ELSE fin.ret

None == <<"None">>

\* bech32.encode(hrp, witver, witprog): None unless the result decodes as a
\* valid segwit address (version 0..16, program 2..40 bytes, and 20 or 32
\* bytes for version 0)
bech32_encode_segwit(hrp, witver, witprog) ==
    IF /\ witver \in 0..16
       /\ Len(witprog) \in 2..40
       /\ (witver = 0 => Len(witprog) \in {20, 32})
    THEN bech32_encode(hrp, <<witver>> \o convertbits(witprog))
    ELSE None

\* ------------------------------------------------------------------------
\* Python built-ins used by addresses.py
\* ------------------------------------------------------------------------
Min(a, b) == IF a < b THEN a ELSE b

\* s[lo:hi] and s[lo:] (0-based, clipped to the length of s)
Slice(s, lo, hi) == SubSeq(s, Min(lo, Len(s)) + 1, Min(hi, Len(s)))
SliceFrom(s, lo) == SubSeq(s, Min(lo, Len(s)) + 1, Len(s))

\* variant: byteorder="little"
from_bytes_signed_mod_little(b, m) ==
    LET Horner(a, i) == (a * 256 + b[Len(b) + 1 - i]) % m
        Power(a, i)  == (a * 256) % m
        unsigned     == FoldRange(Horner, 0, 1, Len(b))
        wrap         == IF Len(b) > 0 /\ b[Len(b)] >= 128
                        THEN FoldRange(Power, 1 % m, 1, Len(b)) ELSE 0
    IN  (unsigned - wrap) % m

\* int.from_bytes(b, byteorder="big", signed=True) % m, computed in
\* arithmetic modulo m: the two's-complement value is the unsigned value
\* minus 256^len(b) when the top bit is set; % is Python's floored modulo
from_bytes_signed_mod(b, m) ==
    LET Horner(a, i) == (a * 256 + b[i]) % m
        Power(a, i)  == (a * 256) % m
        unsigned     == FoldRange(Horner, 0, 1, Len(b))
        wrap         == IF Len(b) > 0 /\ b[1] >= 128
                        THEN FoldRange(Power, 1 % m, 1, Len(b)) ELSE 0
    IN  (unsigned - wrap) % m

\* ------------------------------------------------------------------------
\* functions/addresses.py
\* ------------------------------------------------------------------------
CoordLen == 32

\* privkey_to_pubkey, from the 64-byte string of the verifying key onwards
\* (the key pair itself comes from the ecdsa library)
privkey_to_pubkey(uncompressed_pubkey) ==
    LET x_cor == Slice(fromhex(hex(uncompressed_pubkey)), 0, CoordLen)
        y_cor == SliceFrom(fromhex(hex(uncompressed_pubkey)), CoordLen)
    IN  IF from_bytes_signed_mod(y_cor, 2) = 0
        THEN fromhex(<<"0", "2">>) \o x_cor
        ELSE fromhex(<<"0", "3">>) \o x_cor

encode_base58_checksum(b) == b58encode(b \o Slice(hash256(b), 0, 4))

\* variant: decode verifies the 4-byte checksum and returns the payload only
decode_base58_checked(s) ==
    LET raw     == b58decode(s)
        payload == Slice(raw.value, 0, Len(raw.value) - 4)
    IN  IF raw.raised # "none" THEN raw
        ELSE IF Len(raw.value) >= 4
                /\ SliceFrom(raw.value, Len(raw.value) - 4) = Slice(hash256(payload), 0, 4)
        THEN [raised |-> "none", value |-> payload]
        ELSE [raised |-> "ValueError", value |-> <<>>]

decode_base58(s) == b58decode(s)

MsgTestnet == <<"Enter the network: testnet/regtest/mainnet">>
MsgTesnet == <<"Enter the network: tesnet/regtest/mainnet">>

\* a local name that has not been assigned
Unbound == <<>>

\* Each builder yields its frame: the locals prefix, spk, version and program
\* at the return statement, the calls made to bech32.encode (each a tuple
\* <<hrp, witver, witprog>>), and the returned value.
\* variant: no else branch, any other network is treated as mainnet
pk_to_p2pkh_default_mainnet(compressed, network) ==
    LET pk_hash == hash160(compressed)
        Frame(prefix, ret) ==
            [prefix |-> prefix, spk |-> Unbound, version |-> Unbound,
             program |-> Unbound, calls |-> <<>>, ret |-> ret]
    IN  IF network = "regtest" \/ network = "testnet"
        THEN Frame(fromhex(<<"6", "f">>),
                   encode_base58_checksum(fromhex(<<"6", "f">>) \o pk_hash))
        ELSE Frame(fromhex(<<"0", "0">>),
                   encode_base58_checksum(fromhex(<<"0", "0">>) \o pk_hash))

pk_to_p2pkh(compressed, network) ==
    LET pk_hash == hash160(compressed)
        Frame(prefix, ret) ==
            [prefix |-> prefix, spk |-> Unbound, version |-> Unbound,
             program |-> Unbound, calls |-> <<>>, ret |-> ret]
    IN  IF network = "regtest" \/ network = "testnet"
        THEN Frame(fromhex(<<"6", "f">>),
                   encode_base58_checksum(fromhex(<<"6", "f">>) \o pk_hash))
        ELSE IF network = "mainnet"
        THEN Frame(fromhex(<<"0", "0">>),
                   encode_base58_checksum(fromhex(<<"0", "0">>) \o pk_hash))
        ELSE Frame(Unbound, MsgTestnet)

\* variant: regtest grouped with mainnet
script_to_p2sh_regtest_05(redeemScript, network) ==
    LET rs_hash == hash160(redeemScript)
        Frame(prefix, ret) ==
            [prefix |-> prefix, spk |-> Unbound, version |-> Unbound,
             program |-> Unbound, calls |-> <<>>, ret |-> ret]
    IN  IF network = "testnet"
        THEN Frame(fromhex(<<"c", "4">>),
                   encode_base58_checksum(fromhex(<<"c", "4">>) \o rs_hash))
        ELSE IF network = "mainnet" \/ network = "regtest"
        THEN Frame(fromhex(<<"0", "5">>),
                   encode_base58_checksum(fromhex(<<"0", "5">>) \o rs_hash))
        ELSE Frame(Unbound, MsgTesnet)

script_to_p2sh(redeemScript, network) ==
    LET rs_hash == hash160(redeemScript)
        Frame(prefix, ret) ==
            [prefix |-> prefix, spk |-> Unbound, version |-> Unbound,
             program |-> Unbound, calls |-> <<>>, ret |-> ret]
    IN  IF network = "regtest" \/ network = "testnet"
        THEN Frame(fromhex(<<"c", "4">>),
                   encode_base58_checksum(fromhex(<<"c", "4">>) \o rs_hash))
        ELSE IF network = "mainnet"
        THEN Frame(fromhex(<<"0", "5">>),
                   encode_base58_checksum(fromhex(<<"0", "5">>) \o rs_hash))
        ELSE Frame(Unbound, MsgTesnet)

\* variant: "spk[0] - 0x50" without the zero test
witness_version_unconditional(spk) == spk[1] - 80

\* "spk[0] - 0x50 if spk[0] else 0"
witness_version(spk) == IF spk[1] # 0 THEN spk[1] - 80 ELSE 0

\* variant: a single if / elif / elif / else chain
pk_to_p2wpkh_elif(compressed, network) ==
    LET pk_hash == hash160(compressed)
        spk     == fromhex(<<"0", "0", "1", "4">>) \o pk_hash
        version == witness_version(spk)
        program == SliceFrom(spk, 2)
        prefix0 == IF network = "testnet" THEN <<"t", "b">> ELSE Unbound
        Frame(prefix, made, ret) ==
            [prefix |-> prefix, spk |-> spk, version |-> version,
             program |-> program, calls |-> made, ret |-> ret]
        Encode(prefix) ==
            Frame(prefix,
                  <<(<<prefix, version, program>>)>>,
                  bech32_encode_segwit(prefix, version, program))
    IN  IF network = "testnet" THEN Encode(prefix0)
        ELSE IF network = "regtest" THEN Encode(<<"b", "c", "r", "t">>)
        ELSE IF network = "mainnet" THEN Encode(<<"b", "c">>)
        ELSE Frame(prefix0, <<>>, MsgTestnet)

\* In both segwit builders the network is selected by an "if testnet"
\* statement followed by a separate "if regtest / elif mainnet / else" chain:
\* prefix0 is the value of prefix between the two statements.
pk_to_p2wpkh(compressed, network) ==
    LET pk_hash == hash160(compressed)
        spk     == fromhex(<<"0", "0", "1", "4">>) \o pk_hash
        version == witness_version(spk)
        program == SliceFrom(spk, 2)
        prefix0 == IF network = "testnet" THEN <<"t", "b">> ELSE Unbound
        Frame(prefix, made, ret) ==
            [prefix |-> prefix, spk |-> spk, version |-> version,
             program |-> program, calls |-> made, ret |-> ret]
        Encode(prefix) ==
            Frame(prefix,
                  <<(<<prefix, version, program>>)>>,
                  bech32_encode_segwit(prefix, version, program))
    IN  IF network = "regtest" THEN Encode(<<"b", "c", "r", "t">>)
        ELSE IF network = "mainnet" THEN Encode(<<"b", "c">>)
        ELSE Frame(prefix0, <<>>, MsgTestnet)

\* variant: the script is hashed with hash160
script_to_p2wsh_hash160(redeemScript, network) ==
    LET script_hash == hash160(redeemScript)
        spk     == fromhex(<<"0", "0", "2", "0">>) \o script_hash
        version == witness_version(spk)
        program == SliceFrom(spk, 2)
        prefix0 == IF network = "testnet" THEN <<"t", "b">> ELSE Unbound
        Frame(prefix, made, ret) ==
            [prefix |-> prefix, spk |-> spk, version |-> version,
             program |-> program, calls |-> made, ret |-> ret]
        Encode(prefix) ==
            Frame(prefix,
                  <<(<<prefix, version, program>>)>>,
                  bech32_encode_segwit(prefix, version, program))
    IN  IF network = "regtest" THEN Encode(<<"b", "c", "r", "t">>)
        ELSE IF network = "mainnet" THEN Encode(<<"b", "c">>)
        ELSE Frame(prefix0, <<>>, MsgTestnet)

script_to_p2wsh(redeemScript, network) ==
    LET script_hash == sha256(redeemScript)
        spk     == fromhex(<<"0", "0", "2", "0">>) \o script_hash
        version == witness_version(spk)
        program == SliceFrom(spk, 2)
        prefix0 == IF network = "testnet" THEN <<"t", "b">> ELSE Unbound
        Frame(prefix, made, ret) ==
            [prefix |-> prefix, spk |-> spk, version |-> version,
             program |-> program, calls |-> made, ret |-> ret]
        Encode(prefix) ==
            Frame(prefix,
                  <<(<<prefix, version, program>>)>>,
                  bech32_encode_segwit(prefix, version, program))
    IN  IF network = "regtest" THEN Encode(<<"b", "c", "r", "t">>)
        ELSE IF network = "mainnet" THEN Encode(<<"b", "c">>)
        ELSE Frame(prefix0, <<>>, MsgTestnet)

\* variant: the key hash is framed directly, without hashing the redeem script
pk_to_p2sh_p2wpkh_single_hash(compressed, network) ==
    LET pk_hash      == hash160(compressed)
        redeemScript == fromhex(<<"0", "0", "1", "4">> \o hex(pk_hash))
        rs_hash      == pk_hash
        Frame(prefix, ret) ==
            [prefix |-> prefix, spk |-> Unbound, version |-> Unbound,
             program |-> Unbound, calls |-> <<>>, ret |-> ret]
    IN  IF network = "regtest" \/ network = "testnet"
        THEN Frame(<<196>>, encode_base58_checksum(<<196>> \o rs_hash))
        ELSE IF network = "mainnet"
        THEN Frame(<<5>>, encode_base58_checksum(<<5>> \o rs_hash))
        ELSE Frame(Unbound, MsgTesnet)

pk_to_p2sh_p2wpkh(compressed, network) ==
    LET pk_hash      == hash160(compressed)
        redeemScript == fromhex(<<"0", "0", "1", "4">> \o hex(pk_hash))
        rs_hash      == hash160(redeemScript)
        Frame(prefix, ret) ==
            [prefix |-> prefix, spk |-> Unbound, version |-> Unbound,
             program |-> Unbound, calls |-> <<>>, ret |-> ret]
    IN  IF network = "regtest" \/ network = "testnet"
        THEN Frame(<<196>>, encode_base58_checksum(<<196>> \o rs_hash))
        ELSE IF network = "mainnet"
        THEN Frame(<<5>>, encode_base58_checksum(<<5>> \o rs_hash))
        ELSE Frame(Unbound, MsgTesnet)

\* ------------------------------------------------------------------------
\* Inputs
\* ------------------------------------------------------------------------
Networks == {"mainnet", "testnet", "regtest", "signet", "Mainnet"}
RecognisedNetworks == {"mainnet", "testnet", "regtest"}

ScriptBytes == {0, 81, 255}
Scripts == SeqsUpTo(ScriptBytes, MaxScriptLen)
Payloads == Scripts

Coord(top, fill, low) ==
    [i \in 1..CoordLen |-> IF i = 1 THEN top ELSE IF i = CoordLen THEN low ELSE fill]

Fills == 0..MaxFill
XCoords == {Coord(t, f, 1) : t \in {0, 255}, f \in Fills}
YCoords == {Coord(t, f, l) : t \in {0, 127, 128, 255}, f \in Fills, l \in {0, 1, 254, 255}}

\* what the verifying key's to_string() can be: x || y
UncompressedKeys == {x \o y : x \in XCoords, y \in YCoords}

CompressedKeys == {<<p>> \o x : p \in {2, 3}, x \in XCoords}
\* byte strings a caller can pass that are not 33 bytes long
OtherKeys == {<<>>, <<2>>, Coord(2, 0, 1), Coord(4, 0, 1) \o Coord(0, 0, 2)}
KeyArgs == CompressedKeys \cup OtherKeys

BadChecksums == {<<0, 0, 0, 0>>, <<255, 255, 255, 255>>}
\* strings handed to decode_base58: Base58Check strings, base-58 strings with
\* an arbitrary 4-byte tail, and strings with characters outside the alphabet
DecodeArgs ==
    {encode_base58_checksum(p) : p \in Payloads}
        \cup {b58encode(p \o c) : p \in Payloads, c \in BadChecksums}
        \cup {<<"0">>, <<"1", "l">>, <<"O", "I", "2">>}

\* ------------------------------------------------------------------------
\* State: the last call made and what it produced
\* ------------------------------------------------------------------------
VARIABLES
    fn,        \* name of the function called, "none" before the first call
    arg,       \* its bytes / str argument
    network,   \* its network argument, Unbound for the functions without one
    prefix,    \* local prefix at the return statement
    spk,       \* local spk at the return statement
    version,   \* local version at the return statement
    program,   \* local program at the return statement
    calls,     \* calls made to bech32.encode: tuples <<hrp, witver, witprog>>
    result,    \* the returned value
    raised     \* name of the exception raised, "none" if the call returned

vars == <<fn, arg, network, prefix, spk, version, program, calls, result, raised>>

\* the frame of a function that has none of the builders' locals
NoFrame(ret) ==
    [prefix |-> Unbound, spk |-> Unbound, version |-> Unbound,
     program |-> Unbound, calls |-> <<>>, ret |-> ret]

Init ==
    /\ fn = "none"
    /\ arg = <<>>
    /\ network = Unbound
    /\ prefix = Unbound
    /\ spk = Unbound
    /\ version = Unbound
    /\ program = Unbound
    /\ calls = <<>>
    /\ result = <<>>
    /\ raised = "none"

Call_privkey_to_pubkey ==
    \E k \in UncompressedKeys :
        \E frame \in {NoFrame(privkey_to_pubkey(k))} :
            /\ fn' = "privkey_to_pubkey"
            /\ arg' = k
            /\ network' = Unbound
            /\ prefix' = frame.prefix
            /\ spk' = frame.spk
            /\ version' = frame.version
            /\ program' = frame.program
            /\ calls' = frame.calls
            /\ result' = frame.ret
            /\ raised' = "none"

Call_encode_base58_checksum ==
    \E b \in Payloads :
        \E frame \in {NoFrame(encode_base58_checksum(b))} :
            /\ fn' = "encode_base58_checksum"
            /\ arg' = b
            /\ network' = Unbound
            /\ prefix' = frame.prefix
            /\ spk' = frame.spk
            /\ version' = frame.version
            /\ program' = frame.program
            /\ calls' = frame.calls
            /\ result' = frame.ret
            /\ raised' = "none"

Call_decode_base58 ==
    \E s \in DecodeArgs :
        \E decoded \in {decode_base58(s)} :
            /\ fn' = "decode_base58"
            /\ arg' = s
            /\ network' = Unbound
            /\ prefix' = Unbound
            /\ spk' = Unbound
            /\ version' = Unbound
            /\ program' = Unbound
            /\ calls' = <<>>
            /\ result' = decoded.value
            /\ raised' = decoded.raised

Call_pk_to_p2pkh ==
    \E k \in KeyArgs, n \in Networks :
        \E frame \in {pk_to_p2pkh(k, n)} :
            /\ fn' = "pk_to_p2pkh"
            /\ arg' = k
            /\ network' = n
            /\ prefix' = frame.prefix
            /\ spk' = frame.spk
            /\ version' = frame.version
            /\ program' = frame.program
            /\ calls' = frame.calls
            /\ result' = frame.ret
            /\ raised' = "none"

Call_script_to_p2sh ==
    \E sc \in Scripts, n \in Networks :
        \E frame \in {script_to_p2sh(sc, n)} :
            /\ fn' = "script_to_p2sh"
            /\ arg' = sc
            /\ network' = n
            /\ prefix' = frame.prefix
            /\ spk' = frame.spk
            /\ version' = frame.version
            /\ program' = frame.program
            /\ calls' = frame.calls
            /\ result' = frame.ret
            /\ raised' = "none"

Call_pk_to_p2wpkh ==
    \E k \in KeyArgs, n \in Networks :
        \E frame \in {pk_to_p2wpkh(k, n)} :
            /\ fn' = "pk_to_p2wpkh"
            /\ arg' = k
            /\ network' = n
            /\ prefix' = frame.prefix
            /\ spk' = frame.spk
            /\ version' = frame.version
            /\ program' = frame.program
            /\ calls' = frame.calls
            /\ result' = frame.ret
            /\ raised' = "none"

Call_script_to_p2wsh ==
    \E sc \in Scripts, n \in Networks :
        \E frame \in {script_to_p2wsh(sc, n)} :
            /\ fn' = "script_to_p2wsh"
            /\ arg' = sc
            /\ network' = n
            /\ prefix' = frame.prefix
            /\ spk' = frame.spk
            /\ version' = frame.version
            /\ program' = frame.program
            /\ calls' = frame.calls
            /\ result' = frame.ret
            /\ raised' = "none"

Call_pk_to_p2sh_p2wpkh ==
    \E k \in KeyArgs, n \in Networks :
        \E frame \in {pk_to_p2sh_p2wpkh(k, n)} :
            /\ fn' = "pk_to_p2sh_p2wpkh"
            /\ arg' = k
            /\ network' = n
            /\ prefix' = frame.prefix
            /\ spk' = frame.spk
            /\ version' = frame.version
            /\ program' = frame.program
            /\ calls' = frame.calls
            /\ result' = frame.ret
            /\ raised' = "none"

Next ==
    \/ Call_privkey_to_pubkey
    \/ Call_encode_base58_checksum
    \/ Call_decode_base58
    \/ Call_pk_to_p2pkh
    \/ Call_script_to_p2sh
    \/ Call_pk_to_p2wpkh
    \/ Call_script_to_p2wsh
    \/ Call_pk_to_p2sh_p2wpkh

Spec == Init /\ [][Next]_vars

\* ------------------------------------------------------------------------
\* Properties
\* ------------------------------------------------------------------------
Builders ==
    {"pk_to_p2pkh", "script_to_p2sh", "pk_to_p2wpkh", "script_to_p2wsh", "pk_to_p2sh_p2wpkh"}
LegacyBuilders == {"pk_to_p2pkh", "script_to_p2sh", "pk_to_p2sh_p2wpkh"}
SegwitBuilders == {"pk_to_p2wpkh", "script_to_p2wsh"}
KeyBuilders == {"pk_to_p2pkh", "pk_to_p2wpkh", "pk_to_p2sh_p2wpkh"}

IsNetworkMessage(r) == r \in {MsgTestnet, MsgTesnet}

\* the fixed network table of the specification
TableVersionByte(f, n) ==
    IF f = "pk_to_p2pkh" THEN (IF n = "mainnet" THEN 0 ELSE 111)
                         ELSE (IF n = "mainnet" THEN 5 ELSE 196)

TableHrp(n) ==
    CASE n = "mainnet" -> <<"b", "c">>
      [] n = "testnet" -> <<"t", "b">>
      [] n = "regtest" -> <<"b", "c", "r", "t">>

\* the value a legacy builder returns for the argument of the current call on
\* network n
LegacyOn(n) ==
    CASE fn = "pk_to_p2pkh"       -> pk_to_p2pkh(arg, n).ret
      [] fn = "script_to_p2sh"    -> script_to_p2sh(arg, n).ret
      [] fn = "pk_to_p2sh_p2wpkh" -> pk_to_p2sh_p2wpkh(arg, n).ret

\* the 20-byte hash a legacy builder frames for the argument of the current call
LegacyHash ==
    IF fn = "pk_to_p2sh_p2wpkh" THEN hash160(<<0, 20>> \o hash160(arg)) ELSE hash160(arg)

\* C1: a builder called with a network outside {mainnet, testnet, regtest}
\* returns the "Enter the network" failure message, selects no prefix and
\* never reaches an encoder, so no address of any network is returned.
C1_UnknownNetworkFails ==
    (fn \in Builders /\ network \notin RecognisedNetworks)
        => /\ IsNetworkMessage(result)
           /\ raised = "none"
           /\ prefix = Unbound
           /\ calls = <<>>

C1_Witness ==
    /\ fn = "pk_to_p2pkh"
    /\ network = "signet"
    /\ Len(arg) = 33
    /\ result = MsgTestnet

\* C2: on each of mainnet, testnet and regtest the two native segwit builders
\* call the bech32 encoder with the table's human-readable part and return
\* its encoding, never the failure message.
C2_SegwitResolvesEveryNetwork ==
    (fn \in SegwitBuilders /\ network \in RecognisedNetworks)
        => /\ ~IsNetworkMessage(result)
           /\ Len(calls) = 1
           /\ calls[1][1] = TableHrp(network)
           /\ result = bech32_encode_segwit(TableHrp(network), calls[1][2], calls[1][3])

\* C3: a legacy builder's result is the Base58Check framing of the table's
\* version byte followed by the 20-byte HASH160; testnet and regtest give the
\* same string and mainnet a different one.
C3_LegacyVersionBytes ==
    (fn \in LegacyBuilders /\ network \in RecognisedNetworks)
        => LET raw == b58decode(result) IN
           /\ raw.raised = "none"
           /\ Len(raw.value) = 25
           /\ raw.value[1] = TableVersionByte(fn, network)
           /\ SubSeq(raw.value, 2, 21) = LegacyHash
           /\ prefix = <<TableVersionByte(fn, network)>>
           /\ LegacyOn("testnet") = LegacyOn("regtest")
           /\ LegacyOn("mainnet") # LegacyOn("testnet")
           /\ result = LegacyOn(network)

C3_Witness ==
    /\ fn = "script_to_p2sh"
    /\ network = "regtest"
    /\ prefix = <<196>>
    /\ ~IsNetworkMessage(result)

\* C4: compression returns 33 bytes: 0x02 or 0x03 by the parity of y read as
\* an unsigned big-endian integer (the parity of its last byte), then x
\* unchanged; also when the top bit of y is set.
C4_CompressionParity ==
    (fn = "privkey_to_pubkey")
        => /\ Len(result) = 33
           /\ result[1] = (IF arg[64] % 2 = 0 THEN 2 ELSE 3)
           /\ SubSeq(result, 2, 33) = SubSeq(arg, 1, 32)

C4_Witness ==
    /\ fn = "privkey_to_pubkey"
    /\ arg[33] >= 128
    /\ arg[64] % 2 = 1
    /\ result[1] = 3

\* C5: encode_base58_checksum(p) is the base-58 text of p followed by the
\* first 4 bytes of hash256(p); decode_base58 returns all the bytes of such a
\* text, checksum included, and equally returns the bytes of a text whose
\* last 4 bytes are not the checksum.
C5_Base58CheckRoundTrip ==
    /\ (fn = "encode_base58_checksum")
        => /\ result = b58encode(arg \o SubSeq(hash256(arg), 1, 4))
           /\ decode_base58(result) =
                [raised |-> "none", value |-> arg \o SubSeq(hash256(arg), 1, 4)]
    /\ (fn = "decode_base58")
        => \A p \in Payloads :
            /\ (arg = encode_base58_checksum(p))
                => (raised = "none" /\ result = p \o SubSeq(hash256(p), 1, 4))
            /\ \A c \in BadChecksums :
                (arg = b58encode(p \o c)) => (raised = "none" /\ result = p \o c)

C5_Witness ==
    /\ fn = "decode_base58"
    /\ raised = "none"
    /\ \E p \in Payloads, c \in BadChecksums :
        /\ c # SubSeq(hash256(p), 1, 4)
        /\ Len(p) > 0 /\ p[1] = 0
        /\ arg = b58encode(p \o c)
        /\ result = p \o c

\* C6: when they reach the encoder, script_to_p2wsh passes the 32-byte
\* SHA-256 of the script (not its HASH160) and pk_to_p2wpkh the 20-byte
\* HASH160 of the key; the lengths 32 and 20 show in the address lengths.
C6_WitnessProgramHashes ==
    /\ (fn = "script_to_p2wsh" /\ ~IsNetworkMessage(result))
        => /\ calls = <<(<<prefix, 0, sha256(arg)>>)>>
           /\ program = sha256(arg)
           /\ program # hash160(arg)
           /\ Len(program) = 32
           /\ Len(result) = Len(prefix) + 1 + 1 + 52 + 6
    /\ (fn = "pk_to_p2wpkh" /\ ~IsNetworkMessage(result))
        => /\ calls = <<(<<prefix, 0, ripemd160(sha256(arg))>>)>>
           /\ program = ripemd160(sha256(arg))
           /\ Len(program) = 20
           /\ Len(result) = Len(prefix) + 1 + 1 + 32 + 6

C6_Witness ==
    /\ fn = "script_to_p2wsh"
    /\ network = "regtest"
    /\ Len(arg) > 0
    /\ Len(program) = 32
    /\ Len(result) = 64

\* C7: pk_to_p2sh_p2wpkh(k, n) returns what script_to_p2sh returns for the
\* redeem script 0x00 0x14 || HASH160(k) on the same network value n.
C7_NestedEqualsP2sh ==
    (fn = "pk_to_p2sh_p2wpkh")
        => result = script_to_p2sh(<<0, 20>> \o hash160(arg), network).ret

C7_Witness ==
    /\ fn = "pk_to_p2sh_p2wpkh"
    /\ network = "mainnet"
    /\ Len(arg) = 33
    /\ ~IsNetworkMessage(result)
    /\ b58decode(result).value[1] = 5

\* C8: a builder that expects a compressed key fails with MalformedKey when
\* its key argument is not exactly 33 bytes and returns no address.
C8_MalformedKeyRejected ==
    (fn \in KeyBuilders /\ Len(arg) # 33)
        => /\ raised = "MalformedKey"
           /\ result = <<>>

\* C9: in the native segwit builders the first byte of spk is 0x00, so the
\* version is 0 on every input and network, the program is spk without its
\* first two bytes (0x00 and the length byte), and these are what the encoder
\* is called with.
C9_WitnessVersionZero ==
    (fn \in SegwitBuilders)
        => /\ spk[1] = 0
           /\ version = 0
           /\ spk = <<0, Len(program)>> \o program
           /\ \A i \in 1..Len(calls) : calls[i][2] = 0 /\ calls[i][3] = program

C9_Witness ==
    /\ fn = "script_to_p2wsh"
    /\ network = "mainnet"
    /\ calls = <<(<<(<<"b", "c">>), 0, program>>)>>
    /\ spk[2] = 32

\* C10: in the native segwit builders testnet assigns "tb" and then returns
\* the message without reaching the encoder; the encoder is reached only for
\* regtest with "bcrt" and mainnet with "bc", never with an unassigned prefix.
C10_TestnetFallsThrough ==
    (fn \in SegwitBuilders)
        => /\ (network = "testnet")
                => (prefix = <<"t", "b">> /\ result = MsgTestnet /\ calls = <<>>)
           /\ \A i \in 1..Len(calls) :
                /\ calls[i][1] # Unbound
                /\ calls[i][1] # <<"t", "b">>
                /\ \/ (network = "regtest" /\ calls[i][1] = <<"b", "c", "r", "t">>)
                   \/ (network = "mainnet" /\ calls[i][1] = <<"b", "c">>)
           /\ (network \in {"regtest", "mainnet"}) => Len(calls) = 1

C10_Witness ==
    /\ fn = "pk_to_p2wpkh"
    /\ network = "testnet"
    /\ prefix = <<"t", "b">>
    /\ result = MsgTestnet
    /\ calls = <<>>

====
